---- MODULE Spec2Model ----
(***************************************************************************)
(* Container (src/src/extension/publish/items/Container.js): the timeline  *)
(* reduction done by the constructor (getChildren and the two mask event   *)
(* handlers) and the render pass (getContents and its helpers).            *)
(*                                                                         *)
(* The constructor walks data.frames once, front to back.  The model keeps *)
(* in `frames` the part of the timeline the walk has read so far and draws *)
(* the next frame or command from the input sets when the walk reads it.   *)
(* An Instance is an object; the model names it by its handle, the serial  *)
(* number of the library.createInstance call that returned it.             *)
(*                                                                         *)
(* Shape (src/extension/tools/lib/objects/Shape.js): the constructor's     *)
(* loop over data.paths, one step per path, under ShapeSpec.               *)
(***************************************************************************)
EXTENDS Integers, Sequences, FiniteSets, TLC

\* ---------------------------------------------------------------- bounds
MaxFrames == 2
MaxCommands == 3
MaxRenders == 2
MaxPaths == 3

\* ---------------------------------------------------------------- inputs
InstanceIds == {"A", "B", "C", "S"}
NoTarget == "none"

\* The asset every command of one instanceId carries (one instanceId never
\* maps to two assetIds); the library builds a SoundInstance for "sound".
AssetOf(id) == IF id = "S" THEN "sound" ELSE "graphic"

Graphics == { i \in InstanceIds : AssetOf(i) = "graphic" }

Place(i) == [type |-> "Place", instanceId |-> i, assetId |-> AssetOf(i), maskTill |-> NoTarget]
Unmask(i) == [type |-> "Unmask", instanceId |-> i, assetId |-> AssetOf(i), maskTill |-> NoTarget]
Mask(i, m) == [type |-> "Mask", instanceId |-> i, assetId |-> AssetOf(i), maskTill |-> m]

\* The commands of a timeline of two graphics and a sound: every instance is
\* placed, a graphic instance may also start masking the instances up to the
\* other one and stop masking.
Commands ==
    { Place(i) : i \in {"A", "B", "S"} }
    \cup { Unmask(i) : i \in {"A", "B"} }
    \cup { Mask("A", "B"), Mask("B", "A") }

\* The commands of a timeline of three graphics in which A and B mask C.
MaskPairCommands ==
    { Place("A"), Place("C"), Mask("A", "C"), Mask("B", "C"), Unmask("A") }

\* The timelines differ in the commands their frames are written in.
Vocabularies == {Commands, MaskPairCommands}

AllCommands == Commands \cup MaskPairCommands

\* JavaScript's undefined, where a handle is expected.
Undefined == 0

VARIABLES
    pc,            \* "walk": inside getChildren's loops; "built": constructor returned; "failed": it threw
    frames,        \* the frames read so far, each [frame, commands]
    instances,     \* the heap of Instance objects, by handle
    createCalls,   \* the library.createInstance calls made, in order
    instancesMap,  \* this.instancesMap: instanceId -> handle or Undefined
    masks,         \* this.masks
    candidates,    \* getChildren's local children array during the walk
    children,      \* this.children
    addChildren,   \* this.addChildren
    assigned,      \* the properties the constructor has assigned on this
    renders,       \* the number of render calls made
    renderCalls,   \* the instance.render calls of the last getContents, in call order
    buffer,        \* the value returned by the last getContents, as fragments
    vocabulary,    \* the commands data.frames is written in
    paths,         \* Shape: this.paths
    draw,          \* Shape: this.draw
    pathIndex      \* Shape: the constructor's loop index j

vars == <<pc, frames, instances, createCalls, instancesMap, masks, candidates,
          children, addChildren, assigned, renders, renderCalls, buffer, vocabulary,
          paths, draw, pathIndex>>

\* ---------------------------------------------------------------- helpers
Range(s) == { s[i] : i \in DOMAIN s }

RECURSIVE Reverse(_)
Reverse(s) == IF s = <<>> THEN <<>> ELSE Append(Reverse(Tail(s)), Head(s))

IndexOf(s, x) ==
    IF x \in Range(s) THEN CHOOSE i \in DOMAIN s : s[i] = x /\ \A j \in 1..(i - 1) : s[j] # x
    ELSE -1

\* ---------------------------------------------------------------- Instance
\* library.createInstance(assetId, instanceId): a fresh Instance object.
NewInstance(assetId, instanceId) ==
    [ id |-> instanceId,
      assetId |-> assetId,
      sound |-> (assetId = "sound"),
      renderable |-> TRUE,
      localName |-> <<"instance", instanceId>>,
      frames |-> <<>>,
      maskAdded |-> 0,
      maskRemoved |-> 0 ]

\* instance.on(event, handler)
On(inst, event) ==
    IF event = "maskAdded" THEN [inst EXCEPT !.maskAdded = @ + 1]
    ELSE [inst EXCEPT !.maskRemoved = @ + 1]

\* instance.addToFrame(frame, command): the command joins the instance's
\* history; an instance that receives a Mask command is a mask from then on.
AddToFrameStaysRenderable(inst, frame, command) ==
    [inst EXCEPT !.frames = Append(@, <<frame, command>>)]

AddToFrame(inst, frame, command) ==
    [inst EXCEPT !.frames = Append(@, <<frame, command>>),
                 !.renderable = IF command.type = "Mask" THEN FALSE ELSE @]

\* The number of times addToFrame emits the event to the Container's handler.
Emits(inst, command, event) ==
    IF event = "maskAdded" /\ command.type = "Mask" THEN inst.maskAdded
    ELSE IF event = "maskRemoved" /\ command.type = "Unmask" THEN inst.maskRemoved
    ELSE 0

\* ---------------------------------------------------------------- Container
\* p.onMaskAdded
onMaskAddedOncePerPair(msks, imap, command, frame) ==
    IF \E i \in DOMAIN msks : /\ msks[i].mask = imap[command.instanceId]
                              /\ msks[i].instance = imap[command.maskTill]
    THEN msks
    ELSE Append(msks, [ instance |-> imap[command.maskTill],
                        mask |-> imap[command.instanceId],
                        frame |-> frame,
                        hasDuration |-> FALSE,
                        duration |-> 0 ])

onMaskAdded(msks, imap, command, frame) ==
    Append(msks, [ instance |-> imap[command.maskTill],
                   mask |-> imap[command.instanceId],
                   frame |-> frame,
                   hasDuration |-> FALSE,
                   duration |-> 0 ])

\* p.onMaskRemoved
onMaskRemovedAll(msks, imap, command, frame) ==
    [ i \in DOMAIN msks |->
        [msks[i] EXCEPT !.hasDuration = TRUE, !.duration = frame - msks[i].frame] ]

onMaskRemovedOpenOnly(msks, imap, command, frame) ==
    [ i \in DOMAIN msks |->
        IF msks[i].mask = imap[command.instanceId] /\ ~msks[i].hasDuration
        THEN [msks[i] EXCEPT !.hasDuration = TRUE, !.duration = frame - msks[i].frame]
        ELSE msks[i] ]

onMaskRemoved(msks, imap, command, frame) ==
    [ i \in DOMAIN msks |->
        IF msks[i].mask = imap[command.instanceId]
        THEN [msks[i] EXCEPT !.hasDuration = TRUE, !.duration = frame - msks[i].frame]
        ELSE msks[i] ]

\* The handler called once for every subscription the emitter holds.
RECURSIVE Emit(_, _, _, _, _, _)
Emit(n, event, msks, imap, command, frame) ==
    IF n = 0 THEN msks
    ELSE Emit(n - 1, event,
              IF event = "maskAdded" THEN onMaskAdded(msks, imap, command, frame)
              ELSE onMaskRemoved(msks, imap, command, frame),
              imap, command, frame)

\* The commands read so far, each with the frame.frame of its frame, in walk order.
RECURSIVE Walked(_)
Walked(fs) ==
    IF fs = <<>> THEN <<>>
    ELSE LET last == fs[Len(fs)]
         IN  Walked(SubSeq(fs, 1, Len(fs) - 1)) \o
             [ k \in DOMAIN last.commands |-> <<last.frame, last.commands[k]>> ]

\* Lines 143-149: the backward loop that splices out what is not renderable.
SpliceLoopKeepsAll(list, i, heap) == list

RECURSIVE SpliceForwardFrom(_, _, _)
SpliceForwardFrom(list, k, heap) ==
    IF k > Len(list) THEN list
    ELSE IF ~heap[list[k]].renderable
         THEN SpliceForwardFrom(SubSeq(list, 1, k - 1) \o SubSeq(list, k + 1, Len(list)),
                                k + 1, heap)
         ELSE SpliceForwardFrom(list, k + 1, heap)

SpliceLoopForward(list, i, heap) == SpliceForwardFrom(list, 1, heap)

RECURSIVE SpliceLoop(_, _, _)
SpliceLoop(list, i, heap) ==
    IF i < 1 THEN list
    ELSE IF ~heap[list[i]].renderable
         THEN SpliceLoop(SubSeq(list, 1, i - 1) \o SubSeq(list, i + 1, Len(list)), i - 1, heap)
         ELSE SpliceLoop(list, i - 1, heap)

\* p.getMaskByInstance
getMaskByInstanceLast(msks, heap, instance) ==
    IF \E i \in DOMAIN msks : msks[i].instance = instance
    THEN LET last == CHOOSE i \in DOMAIN msks :
                        /\ msks[i].instance = instance
                        /\ \A j \in (i + 1)..Len(msks) : msks[j].instance # instance
         IN  <<"name", heap[msks[last].mask].localName>>
    ELSE <<"null">>

getMaskByInstance(msks, heap, instance) ==
    IF \E i \in DOMAIN msks : msks[i].instance = instance
    THEN LET first == CHOOSE i \in DOMAIN msks :
                        /\ msks[i].instance = instance
                        /\ \A j \in 1..(i - 1) : msks[j].instance # instance
         IN  <<"name", heap[msks[first].mask].localName>>
    ELSE <<"null">>

\* p.renderInstance on each instance of list in turn, starting from the state
\* st = [addChildren, buffer, calls].
RECURSIVE renderInstances(_, _, _, _)
renderInstances(list, st, msks, heap) ==
    IF list = <<>> THEN st
    ELSE LET instance == Head(list)
             fragment == [ instance |-> heap[instance].localName,
                           mask |-> getMaskByInstance(msks, heap, instance) ]
         IN  renderInstances(Tail(list),
                 [ addChildren |-> Append(st.addChildren, heap[instance].localName),
                   buffer |-> Append(st.buffer, fragment),
                   calls |-> Append(st.calls, instance) ],
                 msks, heap)

\* p.renderChildrenMasks
renderChildrenMasksClosedOnly(st, msks, heap) ==
    renderInstances(
        LET closed == SelectSeq(msks, LAMBDA m : m.hasDuration)
        IN  [ i \in DOMAIN closed |-> closed[i].mask ],
        st, msks, heap)

renderChildrenMasks(st, msks, heap) ==
    renderInstances([ i \in DOMAIN msks |-> msks[i].mask ], st, msks, heap)

\* p.renderChildren
renderChildren(st, chldrn, msks, heap) ==
    renderInstances(chldrn, st, msks, heap)

\* p.renderAddChildren
renderAddChildren(added, compress) ==
    IF Len(added) # 0
    THEN << [ func |-> IF compress THEN "ac" ELSE "addChild", names |-> added ] >>
    ELSE <<>>

Init ==
    /\ pc = "walk"
    /\ frames = <<>>
    /\ instances = <<>>
    /\ createCalls = <<>>
    /\ instancesMap = [i \in InstanceIds \cup {NoTarget} |-> Undefined]
    /\ masks = <<>>
    /\ candidates = <<>>
    /\ children = <<>>
    /\ addChildren = <<>>
    /\ assigned = {"instancesMap", "masks"}
    /\ renders = 0
    /\ renderCalls = <<>>
    /\ buffer = <<>>
    /\ vocabulary \in Vocabularies
    /\ paths = <<>>
    /\ draw = <<>>
    /\ pathIndex = 0

\* The outer forEach callback is entered for the next frame of data.frames.
BeginFrame ==
    /\ pc = "walk"
    /\ Len(frames) < MaxFrames
    /\ frames' = Append(frames, [frame |-> Len(frames), commands |-> <<>>])
    /\ UNCHANGED <<pc, instances, createCalls, instancesMap, masks, candidates,
                   children, addChildren, assigned, renders, renderCalls, buffer>>
    /\ UNCHANGED <<vocabulary, paths, draw, pathIndex>>

\* The next command of the current frame is read.
Read(command) ==
    /\ pc = "walk"
    /\ frames # <<>>
    /\ command \in vocabulary
    /\ Len(Walked(frames)) < MaxCommands
    /\ frames' = [frames EXCEPT ![Len(frames)].commands = Append(@, command)]

\* Line 121: !instance
isMissingAlways(instance) == TRUE

isMissing(instance) == instance = Undefined

\* Line 124: instancesMap[command.instanceId] = instance
register(imap, instanceId, handle) == [imap EXCEPT ![instanceId] = handle]

\* Lines 126-127: the two handlers are subscribed on the new instance.
subscribeNothing(instance) == instance

subscribe(instance) == On(On(instance, "maskAdded"), "maskRemoved")

\* Line 131: instance.addToFrame(frame.frame, command)
attachSkipsSound(instance, frame, command) ==
    IF instance.sound THEN instance ELSE AddToFrame(instance, frame.frame, command)

attach(instance, frame, command) == AddToFrame(instance, frame.frame, command)

\* Lines 134-137: the instance joins the local children array once, unless
\* it is a SoundInstance.
pushChild(list, instance, handle) ==
    IF ~instance.sound /\ IndexOf(list, handle) = -1 THEN Append(list, handle) ELSE list

\* The inner forEach callback (lines 117-138) for a command whose instance
\* the library can build or that is in instancesMap already.
Command(command) ==
    /\ Read(command)
    /\ LET frame == frames[Len(frames)]
           isNew == isMissing(instancesMap[command.instanceId])
           handle == IF isNew THEN Len(instances) + 1 ELSE instancesMap[command.instanceId]
           created == subscribe(NewInstance(command.assetId, command.instanceId))
           instance == IF isNew THEN created ELSE instances[handle]
           imap == IF isNew THEN register(instancesMap, command.instanceId, handle)
                   ELSE instancesMap
           added == Emit(Emits(instance, command, "maskAdded"), "maskAdded",
                         masks, imap, command, frame.frame)
           removed == Emit(Emits(instance, command, "maskRemoved"), "maskRemoved",
                           added, imap, command, frame.frame)
           attached == attach(instance, frame, command)
       IN  /\ createCalls' = IF isNew
                             THEN Append(createCalls, <<command.assetId, command.instanceId>>)
                             ELSE createCalls
           /\ instancesMap' = imap
           /\ instances' = IF isNew THEN Append(instances, attached)
                           ELSE [instances EXCEPT ![handle] = attached]
           /\ masks' = removed
           /\ candidates' = pushChild(candidates, instance, handle)
    /\ UNCHANGED <<pc, children, addChildren, assigned, renders, renderCalls, buffer>>
    /\ UNCHANGED <<vocabulary, paths, draw, pathIndex>>

\* The inner forEach callback for a command whose asset the library cannot
\* resolve: createInstance throws at line 123 and nothing catches it.
CreateFailsCaught(command) ==
    /\ Read(command)
    /\ instancesMap[command.instanceId] = Undefined
    /\ createCalls' = Append(createCalls, <<command.assetId, command.instanceId>>)
    /\ UNCHANGED <<pc, instances, instancesMap, masks, candidates, children, addChildren,
                   assigned, renders, renderCalls, buffer>>
    /\ UNCHANGED <<vocabulary, paths, draw, pathIndex>>

CreateFails(command) ==
    /\ Read(command)
    /\ instancesMap[command.instanceId] = Undefined
    /\ createCalls' = Append(createCalls, <<command.assetId, command.instanceId>>)
    /\ pc' = "failed"
    /\ UNCHANGED <<instances, instancesMap, masks, candidates, children, addChildren,
                   assigned, renders, renderCalls, buffer>>
    /\ UNCHANGED <<vocabulary, paths, draw, pathIndex>>

\* The walk ends: lines 141-154 of getChildren, then lines 37 and 45 of the
\* constructor.
Construct ==
    /\ pc = "walk"
    /\ children' = Reverse(SpliceLoop(candidates, Len(candidates), instances))
    /\ addChildren' = <<>>
    /\ assigned' = assigned \cup {"children", "addChildren"}
    /\ pc' = "built"
    /\ UNCHANGED <<frames, instances, createCalls, instancesMap, masks, candidates,
                   renders, renderCalls, buffer>>
    /\ UNCHANGED <<vocabulary, paths, draw, pathIndex>>

\* p.getContents, as called by p.render.
getContentsResets(compress) ==
    LET pre == renderChildrenMasks(
                   [ addChildren |-> <<>>, buffer |-> <<>>, calls |-> <<>> ],
                   masks, instances)
        mid == renderChildren(pre, children, masks, instances)
        post == renderAddChildren(mid.addChildren, compress)
    IN  /\ addChildren' = mid.addChildren
        /\ renderCalls' = mid.calls
        /\ buffer' = mid.buffer \o post

getContentsChildrenFirst(compress) ==
    LET mid == renderChildren(
                   [ addChildren |-> addChildren, buffer |-> <<>>, calls |-> <<>> ],
                   children, masks, instances)
        pre == renderChildrenMasks(mid, masks, instances)
        post == renderAddChildren(pre.addChildren, compress)
    IN  /\ addChildren' = pre.addChildren
        /\ renderCalls' = pre.calls
        /\ buffer' = pre.buffer \o post

getContents(compress) ==
    LET pre == renderChildrenMasks(
                   [ addChildren |-> addChildren, buffer |-> <<>>, calls |-> <<>> ],
                   masks, instances)
        mid == renderChildren(pre, children, masks, instances)
        post == renderAddChildren(mid.addChildren, compress)
    IN  /\ addChildren' = mid.addChildren
        /\ renderCalls' = mid.calls
        /\ buffer' = mid.buffer \o post

\* p.render
RenderConsumesChildren(compress) ==
    /\ pc = "built"
    /\ renders < MaxRenders
    /\ getContents(compress)
    /\ renders' = renders + 1
    /\ children' = <<>>
    /\ UNCHANGED <<pc, frames, instances, createCalls, instancesMap, masks,
                   candidates, assigned>>
    /\ UNCHANGED <<vocabulary, paths, draw, pathIndex>>

Render(compress) ==
    /\ pc = "built"
    /\ renders < MaxRenders
    /\ getContents(compress)
    /\ renders' = renders + 1
    /\ UNCHANGED <<pc, frames, instances, createCalls, instancesMap, masks,
                   candidates, children, assigned>>
    /\ UNCHANGED <<vocabulary, paths, draw, pathIndex>>

Next ==
    \/ BeginFrame
    \/ \E command \in AllCommands : Command(command)
    \/ \E command \in AllCommands : CreateFails(command)
    \/ Construct
    \/ \E compress \in BOOLEAN : Render(compress)

Spec == Init /\ [][Next]_vars


\* ---------------------------------------------------------------- Shape
\* An entry of path.d or of draw: a number, kept in thousandths, or a string.
Num(t) == [num |-> TRUE, value |-> t, op |-> ""]
Op(name) == [num |-> FALSE, value |-> 0, op |-> name]

\* Line 55: Math.round(command * 100) / 100, on thousandths.
Round(t) == ((t + 5) \div 10) * 10

\* Lines 50-57: every number of path.d is rounded in place.
roundD(d) == [ k \in DOMAIN d |-> IF d[k].num THEN Num(Round(d[k].value)) ELSE d[k] ]

\* Lines 34-37: the close-path pushed before every path but the first.
closePathAlways(index) == << Op("cp") >>

closePath(index) == IF index > 0 THEN << Op("cp") >> ELSE <<>>

\* Lines 41-48: the style opcodes of a stroke or of a fill.
style(path) ==
    IF path.stroke
    THEN << Op("s"), Op(path.color), Num(path.thickness), Num(path.alpha) >>
    ELSE << Op("f"), Op(path.color), Num(path.alpha) >>

\* The path data a Shape is constructed from.
PathData ==
    { << >>,
      << Op("m"), Num(1005), Num(-125) >>,
      << Op("l"), Num(1234), Num(2000), Op("cp") >> }

Paths == [ stroke : BOOLEAN, color : {"#f00"}, thickness : {1500}, alpha : {1000}, d : PathData ]

PathLists == UNION { [1..n -> Paths] : n \in 0..MaxPaths }

ShapeInit ==
    /\ pc = "walk"
    /\ frames = <<>>
    /\ instances = <<>>
    /\ createCalls = <<>>
    /\ instancesMap = [i \in InstanceIds \cup {NoTarget} |-> Undefined]
    /\ masks = <<>>
    /\ candidates = <<>>
    /\ children = <<>>
    /\ addChildren = <<>>
    /\ assigned = {"instancesMap", "masks"}
    /\ renders = 0
    /\ renderCalls = <<>>
    /\ buffer = <<>>
    /\ vocabulary = Commands
    /\ paths \in PathLists
    /\ draw = <<>>
    /\ pathIndex = 0

\* One iteration of the constructor's loop, lines 32-61.
ShapePath ==
    /\ pathIndex < Len(paths)
    /\ LET path == paths[pathIndex + 1]
           d == roundD(path.d)
       IN  /\ draw' = draw \o closePath(pathIndex) \o style(path) \o d
           /\ paths' = [paths EXCEPT ![pathIndex + 1].d = d]
    /\ pathIndex' = pathIndex + 1
    /\ UNCHANGED <<pc, frames, instances, createCalls, instancesMap, masks, candidates,
                   children, addChildren, assigned, renders, renderCalls, buffer,
                   vocabulary>>

ShapeNext == ShapePath

ShapeSpec == ShapeInit /\ [][ShapeNext]_vars

\* ---------------------------------------------------------------- properties
\* The instanceIds the commands of the walk w carry.
IdsOf(w) == { w[k][2].instanceId : k \in DOMAIN w }

ReferencedIds == IdsOf(Walked(frames))

\* The position in the walk w of the first command that carries id.
FirstUse(w, id) ==
    CHOOSE k \in DOMAIN w :
        /\ w[k][2].instanceId = id
        /\ \A j \in 1..(k - 1) : w[j][2].instanceId # id

\* The walk stopped in a createInstance call that returned no Instance.
CreateFailed == Len(createCalls) > Len(instances)

\* The commands whose callback ran to its end.
Processed ==
    LET w == Walked(frames)
    IN  IF CreateFailed THEN SubSeq(w, 1, Len(w) - 1) ELSE w

\* C1: library.createInstance is called exactly once per distinct instanceId,
\* on the first command that carries it (the calls are in first-use order), so
\* when no call fails the Instances created are as many as the distinct
\* instanceIds; instancesMap[id] is the Instance that one call returned and no
\* later command with the same id replaces it.
C1_CreateOncePerId ==
    LET w == Walked(frames)
        ids == IdsOf(w)
        first == [ id \in ids |-> FirstUse(w, id) ]
        called == [ k \in DOMAIN createCalls |-> createCalls[k][2] ]
    IN  /\ Len(createCalls) = Cardinality(ids)
        /\ \A id \in ids :
             /\ Cardinality({ k \in DOMAIN called : called[k] = id }) = 1
             /\ createCalls[IndexOf(called, id)][1] = w[first[id]][2].assetId
        /\ \A k, l \in DOMAIN called : k < l => first[called[k]] < first[called[l]]
        /\ ~CreateFailed =>
             /\ Len(instances) = Cardinality(ids)
             /\ \A k \in DOMAIN called :
                  /\ instancesMap[called[k]] = k
                  /\ instances[k].id = called[k]
        /\ \A id \in InstanceIds \ ids : instancesMap[id] = Undefined

\* C1 witness: a constructed Container whose timeline names one instanceId in
\* more than one command and more than one instanceId.
C1_Witness ==
    /\ pc = "built"
    /\ Len(Walked(frames)) = 3
    /\ Cardinality(ReferencedIds) = 2
    /\ Len(instances) = 2

\* C2: the children the constructor assigns hold no sound-only instance and
\* no instance whose renderable flag is false after the frame walk.
C2_ChildrenRenderable ==
    pc = "built" =>
        \A k \in DOMAIN children :
            /\ ~instances[children[k]].sound
            /\ instances[children[k]].renderable

\* C2 witness: an instance that joined the candidate list while renderable
\* (its first command is a Place), lost the flag later in the walk and is not
\* among the children; a second instance is.
C2_Witness ==
    /\ pc = "built"
    /\ children # <<>>
    /\ \E h \in Range(candidates) :
         /\ instances[h].frames[1][2].type = "Place"
         /\ ~instances[h].renderable
         /\ h \notin Range(children)

\* C3: after exactly one getContents pass on a freshly constructed Container
\* addChildren is as long as masks and children together, the intervals
\* without a duration included.
C3_AddChildrenLength ==
    renders = 1 => Len(addChildren) = Len(masks) + Len(children)

\* C3 witness: one pass was made over an open-ended interval and a child.
C3_Witness ==
    /\ renders = 1
    /\ children # <<>>
    /\ \E i \in DOMAIN masks : ~masks[i].hasDuration

\* C4: in a getContents pass with a non-empty masks list the render calls
\* are those of the masks, in interval order, then those of the children, and
\* the returned buffer holds the fragments in that order followed by the
\* add-children statement.
C4_MasksBeforeChildren ==
    (renders >= 1 /\ masks # <<>>) =>
        LET m == Len(masks)
            c == Len(children)
        IN  /\ Len(renderCalls) = m + c
            /\ \A i \in 1..m : renderCalls[i] = masks[i].mask
            /\ \A j \in 1..c : renderCalls[m + j] = children[j]
            /\ Len(buffer) = m + c + 1
            /\ \A i \in 1..(m + c) :
                 /\ DOMAIN buffer[i] = {"instance", "mask"}
                 /\ buffer[i].instance = instances[renderCalls[i]].localName
            /\ DOMAIN buffer[m + c + 1] = {"func", "names"}

\* C4 witness: a pass over a mask and a child.
C4_Witness ==
    /\ renders >= 1
    /\ masks # <<>>
    /\ children # <<>>

\* C5: every entry of masks has an Instance in its mask field and in its
\* instance field.
C5_MasksReferenceInstances ==
    \A i \in DOMAIN masks :
        /\ masks[i].mask # Undefined
        /\ masks[i].instance # Undefined

\* C6: frame 0 creates A and B, A emitting maskAdded for target B on its
\* frame-0 command, frame 1 makes A emit maskRemoved; the masks are then the
\* one interval {instance: B, mask: A, frame: 0, duration: 1}, in either order
\* of the frame-0 commands.
MaskAB == Mask("A", "B")
PlaceB == Place("B")
UnmaskA == Unmask("A")

C6_Scenario ==
    /\ pc = "built"
    /\ Len(frames) = 2
    /\ frames[1].commands \in { <<MaskAB, PlaceB>>, <<PlaceB, MaskAB>> }
    /\ frames[2].commands = <<UnmaskA>>

C6_OneInterval ==
    C6_Scenario =>
        masks = << [ instance |-> instancesMap["B"], mask |-> instancesMap["A"],
                     frame |-> 0, hasDuration |-> TRUE, duration |-> 1 ] >>

\* C7: every command read is delivered exactly once, with the frame.frame of
\* its frame, to the Instance of its instanceId, whether that Instance is new
\* or not and sound-only or not: the history of each Instance is the commands
\* of its instanceId in walk order (ascending frames, command order within a
\* frame), and an instanceId without an Instance has none.
C7_EveryCommandDelivered ==
    LET done == Processed
    IN  /\ \A h \in DOMAIN instances :
             instances[h].frames = SelectSeq(done, LAMBDA d : d[2].instanceId = instances[h].id)
        /\ \A k \in DOMAIN done : instancesMap[done[k][2].instanceId] \in DOMAIN instances
        /\ \A h \in DOMAIN instances : \A k \in 1..(Len(instances[h].frames) - 1) :
             instances[h].frames[k][1] <= instances[h].frames[k + 1][1]

\* C7 witness: a sound-only instance and a graphic one both received
\* commands, one of them in two frames.
C7_Witness ==
    /\ \E h \in DOMAIN instances : instances[h].sound /\ instances[h].frames # <<>>
    /\ \E h \in DOMAIN instances :
         /\ Len(instances[h].frames) = 2
         /\ instances[h].frames[1][1] < instances[h].frames[2][1]

\* C8: a render call leaves children, masks and instancesMap as they were.
C8_RenderKeepsState ==
    [][renders' # renders =>
         /\ children' = children
         /\ masks' = masks
         /\ instancesMap' = instancesMap]_vars

\* C8 witness: two render calls were made on a Container with a closed mask
\* interval and a child.
C8_Witness ==
    /\ renders >= 2
    /\ children # <<>>
    /\ \E i \in DOMAIN masks : masks[i].hasDuration

\* C9: after one render pass of a freshly constructed Container the local
\* name of every mask instance and of every child occurs exactly once in
\* addChildren, the mask names before the child names.
Occurrences(s, x) == Cardinality({ i \in DOMAIN s : s[i] = x })

C9_DeclaredOnce ==
    renders = 1 =>
        /\ \A i \in DOMAIN masks :
             Occurrences(addChildren, instances[masks[i].mask].localName) = 1
        /\ \A k \in DOMAIN children :
             Occurrences(addChildren, instances[children[k]].localName) = 1
        /\ \A i \in DOMAIN masks, k \in DOMAIN children :
             IndexOf(addChildren, instances[masks[i].mask].localName)
               < IndexOf(addChildren, instances[children[k]].localName)

\* C10: when library.createInstance fails the constructor does not return:
\* children and addChildren are never assigned, nothing is rendered and no
\* later frame or command is read.
C10_FailurePropagates ==
    /\ [](CreateFailed =>
            /\ pc = "failed"
            /\ "children" \notin assigned
            /\ "addChildren" \notin assigned
            /\ renders = 0)
    /\ [][CreateFailed => UNCHANGED vars]_vars

\* C10 witness: createInstance failed after an earlier command had been
\* processed.
C10_Witness ==
    /\ CreateFailed
    /\ instances # <<>>
    /\ masks # <<>>

\* The step is the callback of one more command of the current frame, run
\* to its end.
CommandStep == frames' # frames /\ Len(frames') = Len(frames) /\ ~CreateFailed'

\* The command read last in the current frame, and the frame.frame of it.
LastCommand ==
    LET current == frames[Len(frames)]
    IN  current.commands[Len(current.commands)]
LastFrame == frames[Len(frames)].frame

\* The instance of handle h has received a command of type t.
Received(heap, h, t) == \E k \in DOMAIN heap[h].frames : heap[h].frames[k][2].type = t

\* C11: a maskRemoved event of an instance that never emitted maskAdded (no
\* Mask command is in its history) changes no interval of masks and raises
\* no error: the walk goes on.
C11_UnknownMaskRemovedIsNoOp ==
    [][ ( /\ CommandStep
          /\ LastCommand'.type = "Unmask"
          /\ LET h == instancesMap[LastCommand'.instanceId]
             IN  h = Undefined \/ ~Received(instances, h, "Mask") )
        => (masks' = masks /\ pc' = "walk") ]_vars

\* C11 witness: masks holds an open interval and the last command made an
\* instance that never was a mask emit maskRemoved.
C11_Witness ==
    /\ ~CreateFailed
    /\ frames # <<>>
    /\ frames[Len(frames)].commands # <<>>
    /\ LastCommand.type = "Unmask"
    /\ ~Received(instances, instancesMap[LastCommand.instanceId], "Mask")
    /\ \E i \in DOMAIN masks : ~masks[i].hasDuration

\* C13: a maskRemoved event sets duration = frame - interval.frame on every
\* interval whose mask is the emitting instance, the intervals that had a
\* duration included, and leaves every other interval as it was.
C13_MaskRemovedBroadcast ==
    [][ (CommandStep /\ LastCommand'.type = "Unmask")
        => /\ Len(masks') = Len(masks)
           /\ \A i \in DOMAIN masks :
                IF masks[i].mask = instancesMap'[LastCommand'.instanceId]
                THEN /\ masks'[i].hasDuration
                     /\ masks'[i].duration = LastFrame' - masks[i].frame
                     /\ masks'[i].frame = masks[i].frame
                     /\ masks'[i].instance = masks[i].instance
                     /\ masks'[i].mask = masks[i].mask
                ELSE masks'[i] = masks[i] ]_vars

\* C13 witness: the mask of an interval that starts in frame 0 emitted
\* maskRemoved in frame 0 and again in frame 1, and the duration is that of
\* the second event.
C13_Witness ==
    \E i \in DOMAIN masks :
        LET hist == instances[masks[i].mask].frames
        IN  /\ masks[i].frame = 0
            /\ masks[i].hasDuration
            /\ masks[i].duration = 1
            /\ \E k, l \in DOMAIN hist :
                 /\ k < l
                 /\ hist[k][2].type = "Unmask" /\ hist[k][1] = 0
                 /\ hist[l][2].type = "Unmask" /\ hist[l][1] = 1

\* C14: masks is append-only and not de-duplicated: it is as long as the
\* maskAdded events handled (one per Mask command attached); a Mask command
\* appends one interval {instance, mask, frame} without a duration at the
\* end, also when the pair is in masks already; no step removes or reorders
\* an entry.
MasksOf(w) == SelectSeq(w, LAMBDA d : d[2].type = "Mask")

C14_MasksAppendOnly ==
    /\ [](Len(masks) = Len(MasksOf(Processed)))
    /\ [][ /\ Len(masks') >= Len(masks)
           /\ \A i \in DOMAIN masks :
                /\ masks'[i].instance = masks[i].instance
                /\ masks'[i].mask = masks[i].mask
                /\ masks'[i].frame = masks[i].frame
           /\ (CommandStep /\ LastCommand'.type = "Mask") =>
                masks' = Append(masks,
                    [ instance |-> instancesMap'[LastCommand'.maskTill],
                      mask |-> instancesMap'[LastCommand'.instanceId],
                      frame |-> LastFrame',
                      hasDuration |-> FALSE,
                      duration |-> 0 ]) ]_vars

\* C14 witness: the same (mask, target) pair was signalled twice and masks
\* holds two intervals for it.
C14_Witness ==
    \E i, j \in DOMAIN masks :
        /\ i < j
        /\ masks[i].mask = masks[j].mask
        /\ masks[i].instance = masks[j].instance
        /\ masks[i].instance # Undefined

\* C15: the mask argument of the render call of an instance is the localName
\* of the mask of the first interval of masks, in append order, whose
\* instance field is that instance, and null when there is none.
C15_FirstIntervalMasks ==
    renders >= 1 =>
        \A i \in DOMAIN renderCalls :
            LET hits == { k \in DOMAIN masks : masks[k].instance = renderCalls[i] }
            IN  IF hits = {}
                THEN buffer[i].mask = <<"null">>
                ELSE \E k \in hits :
                        /\ \A l \in hits : k <= l
                        /\ buffer[i].mask = <<"name", instances[masks[k].mask].localName>>

\* C15 witness: a rendered instance is the target of two intervals with
\* different masks, and another rendered instance is the target of none.
C15_Witness ==
    /\ renders >= 1
    /\ \E i \in DOMAIN renderCalls : \E k, l \in DOMAIN masks :
         /\ k < l
         /\ masks[k].instance = renderCalls[i]
         /\ masks[l].instance = renderCalls[i]
         /\ masks[k].mask # masks[l].mask
    /\ \E i \in DOMAIN renderCalls : \A k \in DOMAIN masks : masks[k].instance # renderCalls[i]

\* The instances that are not sound-only, in the order the walk first met
\* them (an instance is created when it is first met, so by handle).
FirstEncounter ==
    SelectSeq([ h \in 1..Len(instances) |-> h ], LAMBDA h : ~instances[h].sound)

\* C16: children is the reverse of the first-encounter order of the distinct
\* non-sound instances, filtered to those renderable after the walk: the
\* backward splice removes exactly the others, skips none and keeps the order
\* of the rest.
C16_ReversedStableFilter ==
    pc = "built" =>
        children = Reverse(SelectSeq(FirstEncounter, LAMBDA h : instances[h].renderable))

\* C16 witness: of three candidates two survive, around or beside the one
\* that was spliced out.
C16_Witness ==
    /\ pc = "built"
    /\ Len(candidates) = 3
    /\ Len(children) = 2

\* The local names one render pass declares: those of the masks of the
\* intervals, in interval order, then those of the children.
PassNames ==
    [ i \in DOMAIN masks |-> instances[masks[i].mask].localName ] \o
    [ k \in DOMAIN children |-> instances[children[k]].localName ]

RECURSIVE Repeated(_, _)
Repeated(s, k) == IF k = 0 THEN <<>> ELSE Repeated(s, k - 1) \o s

\* C17: addChildren is never reset: after k render calls it is k copies of
\* the names of one pass (masks in interval order, then children), so it is
\* k * (masks.length + children.length) long.
C17_AddChildrenAccumulates ==
    pc = "built" =>
        /\ addChildren = Repeated(PassNames, renders)
        /\ Len(addChildren) = renders * (Len(masks) + Len(children))

\* C17 witness: two render calls on a Container with a mask and a child.
C17_Witness ==
    /\ renders = 2
    /\ masks # <<>>
    /\ children # <<>>
    /\ Len(addChildren) >= 4

\* C18: in every getContents call the trailing add-children statement lists
\* the local names of the units rendered in that call, each once and in
\* render order, and is left out exactly when nothing was rendered.
C18_TrailingListsThisCall ==
    renders >= 1 =>
        IF renderCalls = <<>>
        THEN buffer = <<>>
        ELSE /\ Len(buffer) = Len(renderCalls) + 1
             /\ buffer[Len(buffer)].names =
                  [ i \in DOMAIN renderCalls |-> instances[renderCalls[i]].localName ]

\* C19: every instance is in instancesMap and holds one subscription of each
\* handler before its first addToFrame call, so every mask event, that of a
\* first command included, is handled once and finds its emitter in
\* instancesMap: each instance is the mask of as many intervals as it
\* received Mask commands, and a maskRemoved it emitted last closed them all.
C19_SubscribedBeforeAttach ==
    /\ \A h \in DOMAIN instances :
         /\ instances[h].maskAdded = 1
         /\ instances[h].maskRemoved = 1
         /\ instancesMap[instances[h].id] = h
         /\ Cardinality({ i \in DOMAIN masks : masks[i].mask = h })
              = Len(SelectSeq(instances[h].frames, LAMBDA d : d[2].type = "Mask"))
         /\ LET hist == instances[h].frames
            IN  (hist # <<>> /\ hist[Len(hist)][2].type = "Unmask") =>
                   \A i \in DOMAIN masks :
                       masks[i].mask = h =>
                           /\ masks[i].hasDuration
                           /\ masks[i].duration = hist[Len(hist)][1] - masks[i].frame
    /\ \A i \in DOMAIN masks : masks[i].mask \in DOMAIN instances

\* C19 witness: the first command of an instance made it emit maskAdded and
\* the interval of that event names it as the mask.
C19_Witness ==
    \E i \in DOMAIN masks :
        LET hist == instances[masks[i].mask].frames
        IN  /\ hist[1][2].type = "Mask"
            /\ hist[1][1] = masks[i].frame
            /\ Len(hist) = 2
            /\ hist[2][2].type = "Unmask"

\* C20: after construction no instance that is the mask of an interval is
\* among the children, so no instance is rendered in the mask phase and in
\* the content phase of one getContents pass.
C20_MasksNotChildren ==
    pc = "built" =>
        /\ \A i \in DOMAIN masks : masks[i].mask \notin Range(children)
        /\ renders >= 1 =>
             \A i, k \in DOMAIN renderCalls :
                 (i <= Len(masks) /\ k > Len(masks)) => renderCalls[i] # renderCalls[k]

\* C20 witness: a pass rendered a mask that had joined the candidate list
\* as a placed instance, and a child.
C20_Witness ==
    /\ renders >= 1
    /\ children # <<>>
    /\ \E i \in DOMAIN masks :
         /\ masks[i].mask \in Range(candidates)
         /\ instances[masks[i].mask].frames[1][2].type = "Place"

\* The length of the style opcodes of a path.
StyleLen(path) == IF path.stroke THEN 4 ELSE 3

\* The index in draw of the style opcode of path k.
RECURSIVE StyleAt(_)
StyleAt(k) ==
    IF k = 1 THEN 1
    ELSE StyleAt(k - 1) + StyleLen(paths[k - 1]) + Len(paths[k - 1].d) + 1

CountCp(s) == Cardinality({ i \in DOMAIN s : s[i] = Op("cp") })

RECURSIVE CpInData(_)
CpInData(k) == IF k = 0 THEN 0 ELSE CpInData(k - 1) + CountCp(paths[k].d)

\* C12: after N >= 1 paths the constructor has inserted exactly N-1 "cp"
\* opcodes in draw (the others come from the paths' own data), one right
\* before the style opcode ("s" or "f") of every path but the first, and the
\* groups of the paths are in input order.
C12_ClosePathBetweenPaths ==
    pathIndex >= 1 =>
        /\ Len(draw) = StyleAt(pathIndex) + StyleLen(paths[pathIndex]) + Len(paths[pathIndex].d) - 1
        /\ CountCp(draw) = (pathIndex - 1) + CpInData(pathIndex)
        /\ \A k \in 1..pathIndex :
             /\ draw[StyleAt(k)] = Op(IF paths[k].stroke THEN "s" ELSE "f")
             /\ k > 1 => draw[StyleAt(k) - 1] = Op("cp")
             /\ SubSeq(draw, StyleAt(k) + StyleLen(paths[k]),
                       StyleAt(k) + StyleLen(paths[k]) + Len(paths[k].d) - 1) = paths[k].d

\* C12 witness: a Shape of three paths, a stroke and a fill among them, is
\* constructed.
C12_Witness ==
    /\ pathIndex = 3
    /\ Len(paths) = 3
    /\ \E k, l \in 1..3 : paths[k].stroke /\ ~paths[l].stroke
====
